---- MODULE Spec2Model ----
(***************************************************************************)
(* GA Eats: the geospatial proximity queries of geospatial.server          *)
(* (findRestaurantsNearby, findAirportsNearby, findNearestAirport,         *)
(* findRestaurantsNearAirport), the two insert helpers that populate the   *)
(* tables, and the GET /api/airports/:code loader that composes them.      *)
(*                                                                         *)
(* Geography.  Every point of the model lies on one meridian (longitude    *)
(* 0); latitude is counted in grid steps of one kilometre of arc, so the   *)
(* spherical distance between two points is 1000 m per step of latitude.   *)
(*                                                                         *)
(* Numbers.  A JavaScript number is an integer of the model, or NaN (the   *)
(* value parseFloat gives for text that is no number).                     *)
(*                                                                         *)
(* Specifications.  Spec: the core functions and the airport loader over   *)
(* small tables.  SpecNearest: findNearestAirport with airports beyond     *)
(* 500 km.  SpecAwait: the core functions split at their awaits.           *)
(* SpecHaversine, SpecFormat: calculateHaversineDistance and               *)
(* formatDistance applied to given arguments.  SpecRoutes: the loaders of  *)
(* the two nearby APIs and of the map.  SpecAirportDetails: the airport    *)
(* loader over a table larger than the default limit.  SpecPrisma: the     *)
(* Prisma clients the loaders use.  SpecSpatial: the two nearby queries    *)
(* on stores with and without PostGIS.  SpecWriters: the airport loader    *)
(* among other writers of the airports table.  SpecMap: the map loader     *)
(* split at its await.  SpecDirections: the directions components of the   *)
(* map page.                                                               *)
(***************************************************************************)
EXTENDS Integers, Sequences, FiniteSets, TLC

\* ------------------------------------------------------------------ bounds
\* Largest number of rows the "restaurants" table is filled with.
MaxRestaurants == 2

\* Largest number of rows the "airports" table is filled with.
MaxAirports == 2

\* Largest limit argument of the direct calls of the core functions.
MaxLimit == 2

\* Latitudes (grid steps) of stored entities, and of query centers.
Latitudes == {0, 1, 2}
AirportLatitudes == {0, 1}
Centers == {0, 1}

\* Ratings of stored restaurants, and minRating arguments.
Ratings == {4, 5}
MinRatings == {4, 5}

\* radiusKm and limit arguments of the direct calls of the core functions.
RadiiKm == {0, 1}
Limits == -1..MaxLimit

\* Airport codes are sequences of characters.
StoredCodes == { <<"a", "b">>, <<"A", "B">> }
InputCodes == { <<"a", "b">>, <<"A", "b">>, <<"a">>, <<"a", "b", " ">>, <<" ">> }

\* ------------------------------------------------------- JavaScript numbers
\* NaN, the one number of the model that is no integer.
NaN == -99

IsNaN(x) == x = NaN

\* x <= y, x > y, x >= y of JavaScript: every comparison with NaN is false.
JsLeq(x, y) == ~IsNaN(x) /\ ~IsNaN(y) /\ x <= y
JsGt(x, y) == ~IsNaN(x) /\ ~IsNaN(y) /\ x > y
JsLt(x, y) == ~IsNaN(x) /\ ~IsNaN(y) /\ x < y

\* x * y of JavaScript.
JsMul(x, y) == IF IsNaN(x) \/ IsNaN(y) THEN NaN ELSE x * y

Abs(x) == IF x < 0 THEN -x ELSE x

Min(x, y) == IF x <= y THEN x ELSE y

\* -------------------------------------------------------------- geography
GeoPoint(lat, lng) == [latitude |-> lat, longitude |-> lng]

\* Grid steps of latitude in one degree: a degree of arc is 111 km.
StepsPerDegree == 111

\* ST_DistanceSphere(location, ST_MakePoint(lng, lat)), in meters. Two points
\* of the same meridian are 1000 m apart per grid step of latitude. Points of
\* different meridians occur only next to the equator and whole degrees
\* apart: there the difference of longitude decides, 111 km per degree. A
\* coordinate that is NaN gives the distance NaN.
ST_DistanceSphere(p, q) ==
  IF IsNaN(p.latitude) \/ IsNaN(p.longitude) \/ IsNaN(q.latitude) \/ IsNaN(q.longitude)
    THEN NaN
  ELSE IF p.longitude = q.longitude THEN 1000 * Abs(p.latitude - q.latitude)
  ELSE 1000 * StepsPerDegree * Abs(p.longitude - q.longitude)

\* ------------------------------------------------------------------ strings
UpperChar(c) ==
  CASE c = "a" -> "A"
    [] c = "b" -> "B"
    [] OTHER -> c

\* UPPER(code) of SQL.
UPPER(code) == [i \in DOMAIN code |-> UpperChar(code[i])]

RECURSIVE TrimStart(_)
TrimStart(s) == IF s # <<>> /\ Head(s) = " " THEN TrimStart(Tail(s)) ELSE s

RECURSIVE TrimEnd(_)
TrimEnd(s) ==
  IF s # <<>> /\ s[Len(s)] = " " THEN TrimEnd(SubSeq(s, 1, Len(s) - 1)) ELSE s

\* String.prototype.trim
Trim(s) == TrimEnd(TrimStart(s))

\* ------------------------------------------------------------------- state
VARIABLES
  restaurants,  \* the "restaurants" table: row id |-> [rating, location]
  airports,     \* the "airports" table: row id |-> [code, location]
  pc,           \* where the one caller of the model stands
  call,         \* the arguments and locals of the call in progress
  result,       \* what the latest call of a core function returned or threw
  response      \* what the latest GET /api/airports/:code answered

vars == <<restaurants, airports, pc, call, result, response>>

\* result and response are kept only while the tables they were read from are
\* unchanged: an insert forgets them.

NoArgs ==
  [point |-> GeoPoint(0, 0), radiusKm |-> 0, minRating |-> 0, limit |-> 0, code |-> <<>>]

NoResult ==
  [op |-> "none", args |-> NoArgs,
   out |-> [kind |-> "none", rows |-> <<>>, error |-> "none"]]

NoAirport == [id |-> 0, code |-> <<>>, latitude |-> 0, longitude |-> 0]

NoCall ==
  [code |-> <<>>, radiusKm |-> 0, minRating |-> 0, airport |-> NoAirport,
   airportLocation |-> GeoPoint(0, 0)]

NoResponse ==
  [status |-> 0, error |-> "none", code |-> <<>>, radiusKm |-> 0,
   minRating |-> 0, airport |-> NoAirport, restaurants |-> <<>>, count |-> 0]

\* A returned value and a thrown error.
Returned(rows) == [kind |-> "ok", rows |-> rows, error |-> "none"]
ReturnedNull == [kind |-> "null", rows |-> <<>>, error |-> "none"]
Thrown(e) == [kind |-> "error", rows |-> <<>>, error |-> e]

\* The error $queryRaw rejects with when the store cannot run the query.
DataAccessFailure == "DataAccessFailure"

\* new Error(`Airport not found: ${airportCode}`)
AirportNotFound == "Airport not found"

\* ------------------------------------------------------------- the queries
\* How a NaN parameter reaches the SQL comparison: as the float8 NaN, which
\* PostgreSQL orders above every number, or as NULL.
NaNModes == {"float8", "null"}

\* The radius compared in kilometres against a distance in meters.
WithinRadius_Kilometres(distance, radiusMeters, mode) ==
  IF IsNaN(radiusMeters) THEN mode = "float8" ELSE distance <= radiusMeters * 1000

\* ST_DistanceSphere(...) <= ${radiusMeters}. float8 NaN equals itself and is
\* above every number; a comparison with NULL selects no row.
WithinRadius(distance, radiusMeters, mode) ==
  IF IsNaN(radiusMeters) THEN mode = "float8"
  ELSE IF IsNaN(distance) THEN FALSE
  ELSE distance <= radiusMeters

\* The rating filter left out of the WHERE clause.
RatingAtLeast_Any(rating, minRating) == TRUE

\* rating > ${minRating}
RatingAtLeast_Strict(rating, minRating) ==
  IF IsNaN(minRating) THEN FALSE ELSE rating > minRating

\* rating >= ${minRating}
RatingAtLeast(rating, minRating) ==
  IF IsNaN(minRating) THEN FALSE ELSE rating >= minRating

\* The SELECT list of findRestaurantsNearby for row id.
RestaurantRow(id, point) ==
  [id |-> id,
   rating |-> restaurants[id].rating,
   latitude |-> restaurants[id].location.latitude,
   longitude |-> restaurants[id].location.longitude,
   distance |-> ST_DistanceSphere(restaurants[id].location, point)]

\* The SELECT list of findAirportsNearby for row id.
AirportRow(id, point) ==
  [id |-> id,
   code |-> airports[id].code,
   latitude |-> airports[id].location.latitude,
   longitude |-> airports[id].location.longitude,
   distance |-> ST_DistanceSphere(airports[id].location, point)]

\* The ORDER BY clause left out: the rows in any order.
OrderByDistance_Unordered(rows) ==
  LET n == Cardinality(rows)
  IN { s \in [1..n -> rows] : \A i, j \in 1..n : i # j => s[i] # s[j] }

\* ORDER BY distance ASC: every arrangement of the selected rows in which the
\* distances do not decrease, built from a nearest row onward. SQL leaves the
\* order of rows of equal distance to the executor.
RECURSIVE OrderByDistance(_)
OrderByDistance(rows) ==
  IF rows = {} THEN { <<>> }
  ELSE LET nearest == { r \in rows : \A q \in rows : r.distance <= q.distance }
       IN UNION { { <<r>> \o s : s \in OrderByDistance(rows \ {r}) } : r \in nearest }

\* LIMIT ${limit} + 1
Limit_OneMore(s, limit) == SubSeq(s, 1, Min(limit + 1, Len(s)))

\* LIMIT ${limit}, for limit >= 0.
Limit(s, limit) == SubSeq(s, 1, Min(limit, Len(s)))

\* The rows a distance query may return: WHERE, ORDER BY, LIMIT.
SelectNearby(rows, limit) == { Limit(s, limit) : s \in OrderByDistance(rows) }

\* FROM "restaurants" WHERE rating >= minRating AND distance <= radiusMeters
RestaurantsWhere(point, radiusMeters, minRating, mode) ==
  { RestaurantRow(id, point) : id \in
      { i \in DOMAIN restaurants :
          /\ RatingAtLeast(restaurants[i].rating, minRating)
          /\ WithinRadius(ST_DistanceSphere(restaurants[i].location, point),
                          radiusMeters, mode) } }

\* FROM "airports" WHERE distance <= radiusMeters
AirportsWhere(point, radiusMeters, mode) ==
  { AirportRow(id, point) : id \in
      { i \in DOMAIN airports :
          WithinRadius(ST_DistanceSphere(airports[i].location, point),
                       radiusMeters, mode) } }

\* What one run of a distance query can give: the rows, or a rejection (the
\* store is unreachable, or PostgreSQL refuses a negative LIMIT or the LIMIT
\* NaN). LIMIT NULL is no limit.
QueryOutcomes(rowsByMode, limit) ==
  {Thrown(DataAccessFailure)} \cup
  (IF IsNaN(limit) THEN { Returned(s) : s \in OrderByDistance(rowsByMode["null"]) }
   ELSE IF limit < 0 THEN {}
   ELSE { Returned(s) : s \in UNION { SelectNearby(rowsByMode[m], limit) : m \in NaNModes } })

\* findRestaurantsNearby(prisma, point, radiusKm, minRating, limit)
findRestaurantsNearby(point, radiusKm, minRating, limit) ==
  LET radiusMeters == JsMul(radiusKm, 1000)
  IN QueryOutcomes([m \in NaNModes |->
                      RestaurantsWhere(point, radiusMeters, minRating, m)], limit)

\* findAirportsNearby(prisma, point, radiusKm, limit)
findAirportsNearby(point, radiusKm, limit) ==
  LET radiusMeters == JsMul(radiusKm, 1000)
  IN QueryOutcomes([m \in NaNModes |-> AirportsWhere(point, radiusMeters, m)], limit)

\* A rejection caught and answered with null.
FirstOrNull_NullOnError(o) ==
  IF o.kind = "ok" /\ o.rows # <<>> THEN Returned(<<o.rows[1]>>) ELSE ReturnedNull

\* return results[0] || null, once the awaited findAirportsNearby has settled
\* with o; a rejection leaves the function as it came.
FirstOrNull(o) ==
  IF o.kind = "ok"
    THEN (IF o.rows = <<>> THEN ReturnedNull ELSE Returned(<<o.rows[1]>>))
    ELSE o

\* The search made with the default radius of findAirportsNearby, 50 km.
findNearestAirport_DefaultRadius(point) ==
  { FirstOrNull(o) : o \in findAirportsNearby(point, 50, 1) }

\* findNearestAirport(prisma, point)
findNearestAirport(point) ==
  { FirstOrNull(o) : o \in findAirportsNearby(point, 500, 1) }

\* WHERE code = ${code}: the letters compared as they are.
AirportsByCode_CaseSensitive(code) ==
  { i \in DOMAIN airports : airports[i].code = code }

\* SELECT ... FROM "airports" WHERE UPPER(code) = UPPER(${code}) LIMIT 1:
\* the rows the lookup may return (one of the matching rows, or none).
AirportsByCode(code) ==
  { i \in DOMAIN airports : UPPER(airports[i].code) = UPPER(code) }

AirportLookup(code) ==
  IF AirportsByCode(code) = {} THEN { <<>> }
  ELSE { << [id |-> i,
             code |-> airports[i].code,
             latitude |-> airports[i].location.latitude,
             longitude |-> airports[i].location.longitude] >> :
           i \in AirportsByCode(code) }

\* ----------------------------------------------------- parsing the request
\* The query-string values of the model; "" is an absent parameter.
DistanceParams == {"", "0", "1", "101", "x"}
MinRatingParams == {"", "5"}

\* parseFloat of the texts of the model. Numbers are whole: the default center
\* of the map, 39.8283 and -98.5795, is taken to the whole degree toward zero.
ParseFloat(text) ==
  CASE text = "0" -> 0
    [] text = "1" -> 1
    [] text = "5" -> 5
    [] text = "25" -> 25
    [] text = "50" -> 50
    [] text = "91" -> 91
    [] text = "101" -> 101
    [] text = "181" -> 181
    [] text = "1001" -> 1001
    [] text = "5.0" -> 5
    [] text = "4.0" -> 4
    [] text = "50.0" -> 50
    [] text = "39.8283" -> 39
    [] text = "-98.5795" -> -98
    [] OTHER -> NaN

\* parseInt(text, 10) of the texts of the model.
ParseInt(text) ==
  CASE text = "0" -> 0
    [] text = "1" -> 1
    [] text = "20" -> 20
    [] text = "-1" -> -1
    [] OTHER -> NaN

\* url.searchParams.get(name) || fallback
OrDefault(text, fallback) == IF text = "" THEN fallback ELSE text

\* The limit findRestaurantsNearby takes when the caller passes none.
DefaultLimit == 20

\* ----------------------------------------------------------------- actions
Init ==
  /\ restaurants = <<>>
  /\ airports = <<>>
  /\ pc = "idle"
  /\ call = NoCall
  /\ result = NoResult
  /\ response = NoResponse

\* The caller is between calls and holds no value of an earlier one.
Ready == pc = "idle" /\ result = NoResult /\ response = NoResponse

\* createRestaurantWithLocation: INSERT INTO "restaurants".
CreateRestaurantWithLocation ==
  \E rating \in Ratings, lat \in Latitudes :
    /\ Len(restaurants) < MaxRestaurants
    /\ restaurants' =
         Append(restaurants, [rating |-> rating, location |-> GeoPoint(lat, 0)])
    /\ result' = NoResult
    /\ response' = NoResponse
    /\ UNCHANGED <<airports, pc, call>>

\* createAirportWithLocation: INSERT INTO "airports"; the unique index
\* airports_code_key refuses a code that a row already has, letter for letter.
CreateAirportWithLocation ==
  \E code \in StoredCodes, lat \in AirportLatitudes :
    /\ Len(airports) < MaxAirports
    /\ \A i \in DOMAIN airports : airports[i].code # code
    /\ airports' =
         Append(airports, [code |-> code, location |-> GeoPoint(lat, 0)])
    /\ result' = NoResult
    /\ response' = NoResponse
    /\ UNCHANGED <<restaurants, pc, call>>

\* A call of findRestaurantsNearby that stores the distance it computed in
\* every row of the table.
FindRestaurantsNearby_WritesDistance ==
  \E lat \in Centers, radiusKm \in RadiiKm, minRating \in MinRatings,
     limit \in Limits :
    /\ Ready
    /\ \E out \in findRestaurantsNearby(GeoPoint(lat, 0), radiusKm, minRating, limit) :
         result' = [op |-> "findRestaurantsNearby",
                    args |-> [point |-> GeoPoint(lat, 0), radiusKm |-> radiusKm,
                              minRating |-> minRating, limit |-> limit,
                              code |-> <<>>],
                    out |-> out]
    /\ restaurants' =
         [i \in DOMAIN restaurants |->
            [rating |-> restaurants[i].rating,
             location |-> restaurants[i].location,
             distance |-> ST_DistanceSphere(restaurants[i].location, GeoPoint(lat, 0))]]
    /\ response' = NoResponse
    /\ UNCHANGED <<airports, pc, call>>

\* A call of findRestaurantsNearby.
FindRestaurantsNearby ==
  \E lat \in Centers, radiusKm \in RadiiKm, minRating \in MinRatings,
     limit \in Limits :
    /\ Ready
    /\ \E out \in findRestaurantsNearby(GeoPoint(lat, 0), radiusKm, minRating, limit) :
         result' = [op |-> "findRestaurantsNearby",
                    args |-> [point |-> GeoPoint(lat, 0), radiusKm |-> radiusKm,
                              minRating |-> minRating, limit |-> limit,
                              code |-> <<>>],
                    out |-> out]
    /\ response' = NoResponse
    /\ UNCHANGED <<restaurants, airports, pc, call>>

\* A call of findAirportsNearby.
FindAirportsNearby ==
  \E lat \in Centers, radiusKm \in RadiiKm, limit \in Limits :
    /\ Ready
    /\ \E out \in findAirportsNearby(GeoPoint(lat, 0), radiusKm, limit) :
         result' = [op |-> "findAirportsNearby",
                    args |-> [point |-> GeoPoint(lat, 0), radiusKm |-> radiusKm,
                              minRating |-> 0, limit |-> limit, code |-> <<>>],
                    out |-> out]
    /\ response' = NoResponse
    /\ UNCHANGED <<restaurants, airports, pc, call>>

\* A call of findNearestAirport.
FindNearestAirport ==
  \E lat \in Centers :
    /\ Ready
    /\ \E out \in findNearestAirport(GeoPoint(lat, 0)) :
         result' = [op |-> "findNearestAirport",
                    args |-> [point |-> GeoPoint(lat, 0), radiusKm |-> 500,
                              minRating |-> 0, limit |-> 1, code |-> <<>>],
                    out |-> out]
    /\ response' = NoResponse
    /\ UNCHANGED <<restaurants, airports, pc, call>>

FraArgs(c) ==
  [point |-> c.airportLocation, radiusKm |-> c.radiusKm,
   minRating |-> c.minRating, limit |-> DefaultLimit, code |-> c.code]

\* findRestaurantsNearAirport, first query: the airport by code. No row:
\* throw new Error(`Airport not found: ...`).
FindRestaurantsNearAirportLookup ==
  \E code \in InputCodes, radiusKm \in RadiiKm, minRating \in MinRatings :
    /\ Ready
    /\ LET c == [NoCall EXCEPT !.code = code, !.radiusKm = radiusKm,
                               !.minRating = minRating]
       IN \/ /\ result' = [op |-> "findRestaurantsNearAirport", args |-> FraArgs(c),
                           out |-> Thrown(DataAccessFailure)]
             /\ UNCHANGED <<pc, call>>
          \/ \E airport \in AirportLookup(code) :
               IF airport = <<>>
                 THEN /\ result' = [op |-> "findRestaurantsNearAirport",
                                    args |-> FraArgs(c),
                                    out |-> Thrown(AirportNotFound)]
                      /\ UNCHANGED <<pc, call>>
                 ELSE /\ call' = [c EXCEPT !.airportLocation =
                                    GeoPoint(airport[1].latitude, airport[1].longitude)]
                      /\ pc' = "findRestaurantsNearAirport"
                      /\ result' = NoResult
    /\ response' = NoResponse
    /\ UNCHANGED <<restaurants, airports>>

\* findRestaurantsNearAirport, second query: findRestaurantsNearby(prisma,
\* airportLocation, radiusKm, minRating), with the default limit.
FindRestaurantsNearAirportNearby ==
  /\ pc = "findRestaurantsNearAirport"
  /\ \E out \in findRestaurantsNearby(call.airportLocation, call.radiusKm,
                                      call.minRating, DefaultLimit) :
       result' = [op |-> "findRestaurantsNearAirport", args |-> FraArgs(call),
                  out |-> out]
  /\ pc' = "idle"
  /\ call' = NoCall
  /\ UNCHANGED <<restaurants, airports, response>>

\* The caller makes the call it has just made once more, with the same
\* arguments; nothing was written in between.
Again ==
  /\ pc = "idle"
  /\ result.op \in {"findRestaurantsNearby", "findAirportsNearby", "findNearestAirport"}
  /\ \E out \in
         CASE result.op = "findRestaurantsNearby" ->
                findRestaurantsNearby(result.args.point, result.args.radiusKm,
                                      result.args.minRating, result.args.limit)
           [] result.op = "findAirportsNearby" ->
                findAirportsNearby(result.args.point, result.args.radiusKm,
                                   result.args.limit)
           [] OTHER -> findNearestAirport(result.args.point) :
       result' = [result EXCEPT !.out = out]
  /\ UNCHANGED <<restaurants, airports, pc, call, response>>

\* The caller drops the value or the answer it was given.
Discard ==
  /\ pc = "idle"
  /\ result # NoResult \/ response # NoResponse
  /\ result' = NoResult
  /\ response' = NoResponse
  /\ UNCHANGED <<restaurants, airports, pc, call>>

\* ------------------------------------------- GET /api/airports/:code loader
Answer(status, error, c, rows) ==
  [status |-> status, error |-> error, code |-> c.code, radiusKm |-> c.radiusKm,
   minRating |-> c.minRating, airport |-> c.airport, restaurants |-> rows,
   count |-> Len(rows)]

\* The catch block of the loader.
DatabaseError(c) == Answer(500, "Database error", [c EXCEPT !.airport = NoAirport], <<>>)

\* The loader up to its own airport query: validation of the code and of the
\* distance, then SELECT ... WHERE UPPER(code) = UPPER(${code}) LIMIT 1.
LoaderAirport ==
  \E code \in InputCodes, distanceText \in DistanceParams,
     minRatingText \in MinRatingParams :
    LET distance == ParseFloat(OrDefault(distanceText, "5.0"))
        minRating == ParseFloat(OrDefault(minRatingText, "4.0"))
        c == [NoCall EXCEPT !.code = code, !.radiusKm = distance,
                            !.minRating = minRating]
    IN /\ Ready
       /\ IF Trim(code) = <<>>
            THEN /\ response' = Answer(400, "Invalid airport code", c, <<>>)
                 /\ UNCHANGED <<pc, call>>
          ELSE IF JsLeq(distance, 0) \/ JsGt(distance, 100)
            THEN /\ response' = Answer(400, "Invalid distance", c, <<>>)
                 /\ UNCHANGED <<pc, call>>
          ELSE \/ /\ response' = DatabaseError(c)
                  /\ UNCHANGED <<pc, call>>
               \/ \E airportResult \in AirportLookup(code) :
                    IF airportResult = <<>>
                      THEN /\ response' = Answer(404, "Airport not found", c, <<>>)
                           /\ UNCHANGED <<pc, call>>
                      ELSE /\ call' = [c EXCEPT !.airport = airportResult[1]]
                           /\ pc' = "loader"
                           /\ response' = NoResponse
       /\ UNCHANGED <<restaurants, airports, result>>

\* The loader inside findRestaurantsNearAirport, first query. The error the
\* function throws when no row matches lands in the loader's catch block.
LoaderFindRestaurantsNearAirportLookup ==
  /\ pc = "loader"
  /\ \/ /\ response' = DatabaseError(call)
        /\ pc' = "idle"
        /\ call' = NoCall
     \/ \E airport \in AirportLookup(call.code) :
          IF airport = <<>>
            THEN /\ response' = DatabaseError(call)
                 /\ pc' = "idle"
                 /\ call' = NoCall
            ELSE /\ call' = [call EXCEPT !.airportLocation =
                               GeoPoint(airport[1].latitude, airport[1].longitude)]
                 /\ pc' = "loader:findRestaurantsNearAirport"
                 /\ response' = NoResponse
  /\ UNCHANGED <<restaurants, airports, result>>

\* The loader inside findRestaurantsNearAirport, second query, and the
\* combined response.
LoaderFindRestaurantsNearby ==
  /\ pc = "loader:findRestaurantsNearAirport"
  /\ \E out \in findRestaurantsNearby(call.airportLocation, call.radiusKm,
                                      call.minRating, DefaultLimit) :
       response' = IF out.kind = "ok" THEN Answer(200, "none", call, out.rows)
                   ELSE DatabaseError(call)
  /\ pc' = "idle"
  /\ call' = NoCall
  /\ UNCHANGED <<restaurants, airports, result>>

Next ==
  \/ CreateRestaurantWithLocation
  \/ CreateAirportWithLocation
  \/ FindRestaurantsNearby
  \/ FindAirportsNearby
  \/ FindNearestAirport
  \/ FindRestaurantsNearAirportLookup
  \/ FindRestaurantsNearAirportNearby
  \/ Again
  \/ Discard
  \/ LoaderAirport
  \/ LoaderFindRestaurantsNearAirportLookup
  \/ LoaderFindRestaurantsNearby

Spec == Init /\ [][Next]_vars

\* ------------------------------------------------------------ the claims
\* The latest call was findRestaurantsNearby or findAirportsNearby and it
\* returned its rows.
NearbyReturned ==
  /\ result.op \in {"findRestaurantsNearby", "findAirportsNearby"}
  /\ result.out.kind = "ok"

Rows == result.out.rows

RowIds == { Rows[k].id : k \in DOMAIN Rows }

\* The stored location of the entity a returned row stands for.
Stored(row) ==
  IF result.op = "findAirportsNearby" THEN airports[row.id].location
  ELSE restaurants[row.id].location

\* The ids of the stored entities that satisfy the filters of the latest call
\* of findRestaurantsNearby or findAirportsNearby, read off the tables.
Qualifying ==
  IF result.op = "findAirportsNearby"
    THEN { i \in DOMAIN airports :
             ST_DistanceSphere(airports[i].location, result.args.point)
               <= result.args.radiusKm * 1000 }
    ELSE { i \in DOMAIN restaurants :
             /\ restaurants[i].rating >= result.args.minRating
             /\ ST_DistanceSphere(restaurants[i].location, result.args.point)
                  <= result.args.radiusKm * 1000 }

DistanceOf(i) ==
  IF result.op = "findAirportsNearby"
    THEN ST_DistanceSphere(airports[i].location, result.args.point)
    ELSE ST_DistanceSphere(restaurants[i].location, result.args.point)

\* C1: every record returned by findRestaurantsNearby or findAirportsNearby
\* carries a distance of at most radiusKm * 1000 meters, and that distance is
\* the distance of the stored entity from the center.
C1_WithinRadius ==
  NearbyReturned =>
    \A k \in DOMAIN Rows :
      /\ Rows[k].id \in DOMAIN (IF result.op = "findAirportsNearby"
                                 THEN airports ELSE restaurants)
      /\ Rows[k].distance = ST_DistanceSphere(Stored(Rows[k]), result.args.point)
      /\ Rows[k].distance <= result.args.radiusKm * 1000

\* A call with a positive radius returned an entity lying exactly on the
\* radius while another stored entity lies beyond it.
C1_Witness ==
  /\ NearbyReturned
  /\ result.args.radiusKm > 0
  /\ \E k \in DOMAIN Rows : Rows[k].distance = result.args.radiusKm * 1000
  /\ \E i \in DOMAIN restaurants :
       /\ result.op = "findRestaurantsNearby"
       /\ restaurants[i].rating >= result.args.minRating
       /\ ST_DistanceSphere(restaurants[i].location, result.args.point)
            > result.args.radiusKm * 1000

\* C2: the sequence returned by findRestaurantsNearby or findAirportsNearby is
\* non-decreasing by distance.
C2_SortedByDistance ==
  NearbyReturned =>
    \A k \in 1..(Len(Rows) - 1) : Rows[k].distance <= Rows[k + 1].distance

\* Two rows of different distances were returned.
C2_Witness ==
  /\ NearbyReturned
  /\ Len(Rows) >= 2
  /\ Rows[1].distance < Rows[Len(Rows)].distance

\* C3: for limit > 0 the returned sequence has at most limit rows; the call
\* gives a list or throws, never null; and when no stored entity satisfies
\* the filters the list it gives is empty.
C3_AtMostLimit ==
  result.op \in {"findRestaurantsNearby", "findAirportsNearby"} =>
    /\ result.out.kind \in {"ok", "error"}
    /\ result.out.kind = "error" => result.out.error = DataAccessFailure
    /\ (result.out.kind = "ok" /\ result.args.limit > 0) =>
         Len(Rows) <= result.args.limit
    /\ (result.out.kind = "ok" /\ Qualifying = {}) => Rows = <<>>

\* A positive limit cut the list: more entities satisfy the filters than the
\* limit lets through.
C3_Witness ==
  /\ NearbyReturned
  /\ result.args.limit > 0
  /\ Len(Rows) = result.args.limit
  /\ Cardinality(Qualifying) > result.args.limit

\* C4: the rows returned are the first limit elements of a distance-ascending
\* ordering of all stored entities that satisfy the filters: as many rows as
\* the limit and the filters allow, each a different qualifying entity with
\* its stored rating and coordinates, and no qualifying entity that was left
\* out is strictly closer than a returned one.
C4_FirstLimitOfAllQualifying ==
  NearbyReturned =>
    /\ Len(Rows) = Min(result.args.limit, Cardinality(Qualifying))
    /\ \A k, l \in DOMAIN Rows : k # l => Rows[k].id # Rows[l].id
    /\ RowIds \subseteq Qualifying
    /\ \A k \in DOMAIN Rows :
         /\ GeoPoint(Rows[k].latitude, Rows[k].longitude) = Stored(Rows[k])
         /\ result.op = "findRestaurantsNearby" =>
              /\ Rows[k].rating = restaurants[Rows[k].id].rating
              /\ Rows[k].rating >= result.args.minRating
    /\ \A i \in Qualifying \ RowIds :
         \A k \in DOMAIN Rows : DistanceOf(i) >= Rows[k].distance

\* The limit left out a qualifying restaurant that is farther than the one
\* returned.
C4_Witness ==
  /\ NearbyReturned
  /\ result.op = "findRestaurantsNearby"
  /\ Len(Rows) = 1
  /\ \E i \in Qualifying \ RowIds : DistanceOf(i) > Rows[1].distance

\* C5: findRestaurantsNearby and findAirportsNearby return no list whenever
\* radiusKm <= 0 or limit <= 0: the call fails, with an InvalidArgument error
\* (the store's own failure apart).
C5_InvalidArgument ==
  ( /\ result.op \in {"findRestaurantsNearby", "findAirportsNearby"}
    /\ result.args.radiusKm <= 0 \/ result.args.limit <= 0 )
  => /\ result.out.kind = "error"
     /\ result.out.error \in {"InvalidArgument", DataAccessFailure}

\* Some stored airport's code equals code when letter case is ignored.
SomeAirportHasCode(code) ==
  \E i \in DOMAIN airports : UPPER(airports[i].code) = UPPER(code)

\* No stored restaurant has rating >= minRating within radiusKm of point.
NoRestaurantQualifies(point, radiusKm, minRating) ==
  \A i \in DOMAIN restaurants :
    \/ restaurants[i].rating < minRating
    \/ ST_DistanceSphere(restaurants[i].location, point) > radiusKm * 1000

\* C6: a call of findRestaurantsNearAirport whose code equals no stored
\* airport's code, letter case ignored, ends at its first query by throwing
\* "Airport not found" (or the store's own failure) and returns no list;
\* and it throws "Airport not found" in no other case.
C6_NotFound ==
  [][ (Ready /\ (pc' = "findRestaurantsNearAirport"
                   \/ result'.op = "findRestaurantsNearAirport")) =>
        LET code == IF pc' = "idle" THEN result'.args.code ELSE call'.code
        IN /\ ~SomeAirportHasCode(code) =>
                /\ pc' = "idle"
                /\ result'.out \in {Thrown(AirportNotFound), Thrown(DataAccessFailure)}
           /\ result'.out = Thrown(AirportNotFound) => ~SomeAirportHasCode(code)
    ]_vars

\* The call threw "Airport not found" although airports are stored.
C6_Witness ==
  /\ result.op = "findRestaurantsNearAirport"
  /\ result.out = Thrown(AirportNotFound)
  /\ airports # <<>>

\* C7: when the code has resolved to an airport and no stored restaurant has
\* rating >= minRating within the radius of the resolved location, the second
\* query of findRestaurantsNearAirport returns the empty list, and the loader
\* answers 200 with the airport, an empty restaurants list and count 0 (the
\* store's own failure apart).
C7_EmptyIsSuccess ==
  [][ /\ ( /\ pc = "findRestaurantsNearAirport"
           /\ pc' = "idle"
           /\ NoRestaurantQualifies(call.airportLocation, call.radiusKm,
                                    call.minRating) )
         => result'.out \in {Returned(<<>>), Thrown(DataAccessFailure)}
      /\ ( /\ pc = "loader:findRestaurantsNearAirport"
           /\ pc' = "idle"
           /\ ~IsNaN(call.radiusKm)
           /\ ~IsNaN(call.minRating)
           /\ NoRestaurantQualifies(call.airportLocation, call.radiusKm,
                                    call.minRating) )
         => \/ /\ response'.status = 200
               /\ response'.error = "none"
               /\ response'.airport = call.airport
               /\ response'.restaurants = <<>>
               /\ response'.count = 0
            \/ response' = DatabaseError(call)
    ]_vars

\* The loader answered 200 with no restaurant and count 0 for a numeric
\* radius while restaurants are stored.
C7_Witness ==
  /\ response.status = 200
  /\ response.restaurants = <<>>
  /\ response.count = 0
  /\ ~IsNaN(response.radiusKm)
  /\ restaurants # <<>>

\* C8: once findRestaurantsNearAirport has resolved its code, the search
\* center is the location of every stored airport whose code equals the input
\* when letter case is ignored, and of no other airport.
C8_CaseInsensitiveExactMatch ==
  pc = "findRestaurantsNearAirport" =>
    /\ \E i \in DOMAIN airports :
         /\ UPPER(airports[i].code) = UPPER(call.code)
         /\ call.airportLocation = airports[i].location
    /\ \A i \in DOMAIN airports :
         UPPER(airports[i].code) = UPPER(call.code) =>
           call.airportLocation = airports[i].location

\* C9: the same call of findRestaurantsNearby or findAirportsNearby made
\* again on unchanged tables returns the same rows in the same order.
C9_SameCallSameRows ==
  [][ ( /\ pc = "idle"
        /\ NearbyReturned
        /\ result'.op = result.op
        /\ result'.args = result.args
        /\ result'.out.kind = "ok"
        /\ restaurants' = restaurants
        /\ airports' = airports )
      => result'.out.rows = result.out.rows
    ]_vars

\* C10: rows of equal distance are returned in ascending order of id.
C10_TiesInIdOrder ==
  NearbyReturned =>
    \A k, l \in DOMAIN Rows :
      (k < l /\ Rows[k].distance = Rows[l].distance) => Rows[k].id < Rows[l].id

\* ------------------------------------- findNearestAirport over a wide area
\* Latitudes of airports up to and beyond the 500 km of findNearestAirport.
FarLatitudes == {0, 1, 501, 502}

\* createAirportWithLocation, for airports near and far.
CreateAirportWithLocationFar ==
  \E code \in StoredCodes, lat \in FarLatitudes :
    /\ Len(airports) < MaxAirports
    /\ \A i \in DOMAIN airports : airports[i].code # code
    /\ airports' =
         Append(airports, [code |-> code, location |-> GeoPoint(lat, 0)])
    /\ result' = NoResult
    /\ response' = NoResponse
    /\ UNCHANGED <<restaurants, pc, call>>

NextNearest ==
  \/ CreateAirportWithLocationFar
  \/ FindNearestAirport
  \/ Again
  \/ Discard

SpecNearest == Init /\ [][NextNearest]_vars

\* The airports within 500 km of the point.
Within500Km(point) ==
  { i \in DOMAIN airports :
      ST_DistanceSphere(airports[i].location, point) <= 500 * 1000 }

\* C11: unless the store itself fails, findNearestAirport returns null exactly
\* when no airport lies within 500 km of the point, and otherwise the row of
\* one airport within 500 km than which no airport is nearer, with its
\* distance: the first row of findAirportsNearby(point, 500, 1).
C11_NearestWithin500Km ==
  (result.op = "findNearestAirport" /\ result.out # Thrown(DataAccessFailure)) =>
    LET point == result.args.point
        near == Within500Km(point)
    IN IF near = {}
         THEN result.out = ReturnedNull
         ELSE /\ result.out.kind = "ok"
              /\ Len(result.out.rows) = 1
              /\ LET row == result.out.rows[1]
                 IN /\ row.id \in near
                    /\ row = AirportRow(row.id, point)
                    /\ \A j \in near :
                         row.distance <=
                           ST_DistanceSphere(airports[j].location, point)

\* null although an airport is stored, 501 km away.
C11_Witness ==
  /\ result.op = "findNearestAirport"
  /\ result.out = ReturnedNull
  /\ \E i \in DOMAIN airports :
       ST_DistanceSphere(airports[i].location, result.args.point) = 501 * 1000

\* ------------------------------------------------ calculateHaversineDistance
\* Numbers of this section are fixed-point: the integer n stands for n / Scale.
\* As the floating-point unit does at 53 bits, every operation gives its exact
\* result rounded to the nearest number that can be represented; a whole number
\* times a fixed-point number is exact. Degrees are whole numbers.
Scale == 10000

\* Math.PI, and its half and quarter.
MathPI == 31416
HalfPI == 15708
QuarterPI == 7854

\* n / d for d > 0, rounded to the nearest integer, halves away from zero.
DivRound(n, d) ==
  IF n >= 0 THEN (2 * n + d) \div (2 * d) ELSE -((2 * (-n) + d) \div (2 * d))

\* x * y and x / y of two fixed-point numbers.
FixMul(x, y) == DivRound(x * y, Scale)
FixDiv(x, y) == DivRound(x * Scale, y)

\* Math.sin(x) for -pi <= x <= pi: the argument is brought into
\* [-pi/2, pi/2], then x - x^3/3! + x^5/5! - x^7/7! + x^9/9! in Horner form.
MathSin(x) ==
  LET r == IF x > HalfPI THEN MathPI - x
           ELSE IF x < -HalfPI THEN -MathPI - x ELSE x
      z == FixMul(r, r)
      t4 == Scale - DivRound(z, 72)
      t3 == Scale - DivRound(FixMul(z, t4), 42)
      t2 == Scale - DivRound(FixMul(z, t3), 20)
      t1 == Scale - DivRound(FixMul(z, t2), 6)
  IN FixMul(r, t1)

\* Math.cos(x) for -pi/2 <= x <= pi/2: 1 - x^2/2! + x^4/4! - ... + x^10/10!.
MathCos(x) ==
  LET z == FixMul(x, x)
      t5 == Scale - DivRound(z, 90)
      t4 == Scale - DivRound(FixMul(z, t5), 56)
      t3 == Scale - DivRound(FixMul(z, t4), 30)
      t2 == Scale - DivRound(FixMul(z, t3), 12)
  IN Scale - DivRound(FixMul(z, t2), 2)

\* The largest r in lo..hi whose square is at most n.
RECURSIVE FloorSqrt(_, _, _)
FloorSqrt(n, lo, hi) ==
  IF lo = hi THEN lo
  ELSE LET mid == (lo + hi + 1) \div 2
       IN IF mid * mid <= n THEN FloorSqrt(n, mid, hi)
          ELSE FloorSqrt(n, lo, mid - 1)

\* Math.sqrt(a): NaN for a negative number.
MathSqrt(a) ==
  IF IsNaN(a) \/ a < 0 THEN NaN
  ELSE LET n == a * Scale
           r == FloorSqrt(n, 0, 2 * Scale)
       IN IF n - r * r > r THEN r + 1 ELSE r

\* atan(t) for |t| <= tan(pi/8): t - t^3/3 + t^5/5 - t^7/7 + t^9/9.
AtanSeries(t) ==
  LET z == FixMul(t, t)
      u4 == Scale - DivRound(7 * z, 9)
      u3 == Scale - DivRound(5 * FixMul(z, u4), 7)
      u2 == Scale - DivRound(3 * FixMul(z, u3), 5)
      u1 == Scale - DivRound(FixMul(z, u2), 3)
  IN FixMul(t, u1)

\* atan(t) for 0 <= t <= 1: above tan(pi/8), pi/4 + atan((t - 1) / (t + 1)).
Atan(t) ==
  IF t > 4142 THEN QuarterPI + AtanSeries(FixDiv(t - Scale, t + Scale))
  ELSE AtanSeries(t)

\* Math.atan2(y, x) for y >= 0 and x >= 0; NaN when an argument is NaN.
MathAtan2(y, x) ==
  IF IsNaN(y) \/ IsNaN(x) THEN NaN
  ELSE IF y = 0 THEN 0
  ELSE IF y <= x THEN Atan(FixDiv(y, x))
  ELSE HalfPI - Atan(FixDiv(x, y))

\* Earth's radius in kilometers.
R == 6371

\* toRadians(degrees) = (degrees * Math.PI) / 180
toRadians(degrees) == DivRound(degrees * MathPI, 180)

\* The haversine a of calculateHaversineDistance.
HaversineA(point1, point2) ==
  LET dLat == toRadians(point2.latitude - point1.latitude)
      dLon == toRadians(point2.longitude - point1.longitude)
  IN FixMul(MathSin(DivRound(dLat, 2)), MathSin(DivRound(dLat, 2))) +
     FixMul(FixMul(FixMul(MathCos(toRadians(point1.latitude)),
                          MathCos(toRadians(point2.latitude))),
                   MathSin(DivRound(dLon, 2))),
            MathSin(DivRound(dLon, 2)))

\* dLat taken as the sum of the two latitudes.
calculateHaversineDistance_SumOfLatitudes(point1, point2) ==
  LET dLat == toRadians(point2.latitude + point1.latitude)
      s == MathSin(DivRound(dLat, 2))
      c == JsMul(2, MathAtan2(MathSqrt(FixMul(s, s)), MathSqrt(Scale - FixMul(s, s))))
  IN JsMul(R, c)

\* calculateHaversineDistance(point1, point2), in kilometers (fixed-point), or
\* NaN.
calculateHaversineDistance(point1, point2) ==
  LET a == HaversineA(point1, point2)
      c == JsMul(2, MathAtan2(MathSqrt(a), MathSqrt(Scale - a)))
  IN JsMul(R, c)

\* The valid GeoPoints of the model, in whole degrees.
HaversineLatitudes == {-90, -45, -12, 0, 12, 45, 90}
HaversineLongitudes == {-180, -90, 0, 90, 180}
HaversinePoints ==
  { GeoPoint(lat, lng) : lat \in HaversineLatitudes, lng \in HaversineLongitudes }

\* The two points are given; nothing is computed yet.
InitHaversine ==
  /\ restaurants = <<>>
  /\ airports = <<>>
  /\ pc = "idle"
  /\ call \in [point1 : HaversinePoints, point2 : HaversinePoints]
  /\ result = NoResult
  /\ response = NoResponse

\* A call of calculateHaversineDistance on the two points.
CalculateHaversineDistance ==
  /\ result.op = "none"
  /\ result' = [op |-> "calculateHaversineDistance", args |-> call,
                out |-> calculateHaversineDistance(call.point1, call.point2)]
  /\ UNCHANGED <<restaurants, airports, pc, call, response>>

NextHaversine == CalculateHaversineDistance

SpecHaversine == InitHaversine /\ [][NextHaversine]_vars

\* x === y and x >= y of JavaScript: false when either side is NaN.
JsEq(x, y) == ~IsNaN(x) /\ ~IsNaN(y) /\ x = y
JsGeq(x, y) == ~IsNaN(x) /\ ~IsNaN(y) /\ x >= y

\* C12: the distance from a valid GeoPoint to itself is exactly 0.
C12_SamePointIsZero ==
  (result.op = "calculateHaversineDistance" /\ result.args.point1 = result.args.point2)
    => result.out = 0

\* The distance of a point away from the equator and the Greenwich meridian to
\* itself has been computed.
C12_Witness ==
  /\ result.op = "calculateHaversineDistance"
  /\ result.args.point1 = result.args.point2
  /\ result.args.point1 = GeoPoint(45, -90)

\* C13: for all valid GeoPoints the distance from P1 to P2 equals the distance
\* from P2 to P1, and it is a number that is not negative.
C13_SymmetricNonNegative ==
  result.op = "calculateHaversineDistance" =>
    /\ JsEq(result.out,
            calculateHaversineDistance(result.args.point2, result.args.point1))
    /\ JsGeq(result.out, 0)

\* ------------------------------------------------------------ formatDistance
\* A distance is given in tenths of a meter: the integer t stands for the
\* number t / 10. Every whole number of meters, every half and every tenth
\* below MaxTenths is an input.
MaxTenths == 25000
FormatInputs == (0..MaxTenths) \cup {54320, 100000, 1000000, 5590000}

\* Math.round(x) of x = t / 10: the nearest integer, a half going up.
MathRound(t) == (t + 5) \div 10

\* 2^k modulo m.
RECURSIVE Pow2Mod(_, _)
Pow2Mod(k, m) == IF k = 0 THEN 1 ELSE (2 * Pow2Mod(k - 1, m)) % m

\* The binary exponent of d / 1000: the e with p * 2^e <= d < 2 * p * 2^e,
\* counted up from p = 1000.
RECURSIVE BinaryExponent(_, _)
BinaryExponent(d, p) == IF 2 * p > d THEN 0 ELSE 1 + BinaryExponent(d, 2 * p)

\* The sign of km - d / 1000 for km = d / 1000 as the double division gives
\* it, d a whole number of meters >= 1000. The 53-bit significand of km is
\* d * 2^k / 1000 rounded to the nearest integer, ties to even, with
\* k = 52 - exponent; the remainder of d * 2^k modulo 1000 tells which way the
\* rounding went, and modulo 2000 whether the integer below is even.
DivisionError(d) ==
  LET k == 52 - BinaryExponent(d, 1000)
      r == ((d % 2000) * Pow2Mod(k, 2000)) % 2000
      m == r % 1000
  IN IF m = 0 THEN 0
     ELSE IF m < 500 THEN -1
     ELSE IF m > 500 THEN 1
     ELSE IF r = 500 THEN -1 ELSE 1

\* The number of tenths that (t / 10 / 1000).toFixed(1) shows. toFixed takes
\* the n for which n / 10 is nearest to the double km, the larger n of two
\* equally near; km differs from the quotient by less than any gap but the
\* one at x.x5, where the direction of DivisionError decides.
ToFixed1(t) ==
  LET n == t \div 1000
      rest == t % 1000
  IN IF rest < 500 THEN n
     ELSE IF rest > 500 THEN n + 1
     ELSE IF DivisionError(t \div 10) < 0 THEN n ELSE n + 1

\* n tenths written with one decimal digit.
OneDecimal(n) == ToString(n \div 10) \o "." \o ToString(n % 10)

\* The unit chosen after rounding: Math.round(distanceMeters) < 1000.
formatDistance_RoundedUnit(t) ==
  IF MathRound(t) < 1000 THEN ToString(MathRound(t)) \o " m"
  ELSE OneDecimal(ToFixed1(t)) \o " km"

\* formatDistance(distanceMeters), distanceMeters = t / 10.
formatDistance(t) ==
  IF t < 10000 THEN ToString(MathRound(t)) \o " m"
  ELSE OneDecimal(ToFixed1(t)) \o " km"

\* The distance is given; nothing is formatted yet.
InitFormat ==
  /\ restaurants = <<>>
  /\ airports = <<>>
  /\ pc = "idle"
  /\ call \in [distanceMeters : FormatInputs]
  /\ result = NoResult
  /\ response = NoResponse

\* A call of formatDistance on the distance.
FormatDistance ==
  /\ result.op = "none"
  /\ result' = [op |-> "formatDistance", args |-> call,
                out |-> formatDistance(call.distanceMeters)]
  /\ UNCHANGED <<restaurants, airports, pc, call, response>>

NextFormat == FormatDistance

SpecFormat == InitFormat /\ [][NextFormat]_vars

\* C14: below 1000 m the output is a nearest whole number of meters followed
\* by " m"; from 1000 m on it is a nearest number of tenths of a kilometer,
\* written with one decimal digit and followed by " km". The unit depends on
\* the input as given, not on the rounded one.
C14_MetersOrKilometers ==
  result.op = "formatDistance" =>
    LET t == result.args.distanceMeters
    IN IF t < 10000
         THEN \E m \in 0..1000 :
                /\ Abs(10 * m - t) <= 5
                /\ result.out = ToString(m) \o " m"
         ELSE \E n \in (t \div 1000)..(t \div 1000 + 1) :
                /\ Abs(1000 * n - t) <= 500
                /\ result.out = OneDecimal(n) \o " km"

\* 999 m and 10 km have been formatted, as "999 m" and "10.0 km".
C14_Witness ==
  /\ result.op = "formatDistance"
  /\ \/ result.args.distanceMeters = 9990 /\ result.out = "999 m"
     \/ result.args.distanceMeters = 100000 /\ result.out = "10.0 km"

\* C15: a whole number of meters >= 1000 that ends in 50 is shown with the
\* tenths digit rounded up, and a distance below 1000 m with fractional part
\* .5 is shown as the next whole number of meters.
C15_HalfAwayFromZero ==
  result.op = "formatDistance" =>
    LET t == result.args.distanceMeters
    IN /\ (t >= 10000 /\ t % 1000 = 500) =>
            result.out = OneDecimal(t \div 1000 + 1) \o " km"
       /\ (t < 10000 /\ t % 10 = 5) =>
            result.out = ToString(t \div 10 + 1) \o " m"

\* ------------------------------------------------ frame of the core functions
\* The step is one of a core query function: it leaves a value or an error of
\* one in result, or it enters or leaves the second query of
\* findRestaurantsNearAirport.
CoreQueryStep ==
  \/ result'.op \in {"findRestaurantsNearby", "findAirportsNearby",
                     "findNearestAirport", "findRestaurantsNearAirport"}
  \/ pc' # pc /\ "findRestaurantsNearAirport" \in {pc, pc'}

\* C16: no step of findRestaurantsNearby, findAirportsNearby,
\* findNearestAirport or findRestaurantsNearAirport, whether it returns or
\* throws, changes the stored restaurants or airports, and no stored row
\* carries the distance of a query.
C16_PureReads ==
  [][CoreQueryStep =>
       /\ restaurants' = restaurants
       /\ airports' = airports
       /\ \A i \in DOMAIN restaurants' :
            DOMAIN restaurants'[i] = {"rating", "location"}
       /\ \A i \in DOMAIN airports' :
            DOMAIN airports'[i] = {"code", "location"}]_vars

\* findRestaurantsNearAirport has returned a restaurant with its distance, and
\* the stored row of that restaurant holds its rating and location only.
C16_Witness ==
  /\ result.op = "findRestaurantsNearAirport"
  /\ result.out.kind = "ok"
  /\ result.out.rows # <<>>
  /\ result.out.rows[1].distance > 0
  /\ DOMAIN restaurants[result.out.rows[1].id] = {"rating", "location"}

\* ------------------------------------- the core functions, await by await
\* Each core function awaits a query (findNearestAirport: the call of
\* findAirportsNearby) and goes on when the awaited promise has settled, with
\* rows or with the rejection of the store. Here call holds the function, its
\* arguments and the settled outcome it is about to resume with.
NoAwait == [op |-> "none", args |-> NoArgs, settled |-> NoResult.out]

InitAwait ==
  /\ restaurants = <<>>
  /\ airports = <<>>
  /\ pc = "idle"
  /\ call = NoAwait
  /\ result = NoResult
  /\ response = NoResponse

\* findRestaurantsNearby: await prisma.$queryRaw`...`
AwaitRestaurantsQuery ==
  \E lat \in Centers, radiusKm \in RadiiKm, minRating \in MinRatings,
     limit \in Limits :
    /\ Ready
    /\ \E o \in findRestaurantsNearby(GeoPoint(lat, 0), radiusKm, minRating, limit) :
         call' = [op |-> "findRestaurantsNearby",
                  args |-> [point |-> GeoPoint(lat, 0), radiusKm |-> radiusKm,
                            minRating |-> minRating, limit |-> limit,
                            code |-> <<>>],
                  settled |-> o]
    /\ pc' = "await:results"
    /\ UNCHANGED <<restaurants, airports, result, response>>

\* findAirportsNearby: await prisma.$queryRaw`...`
AwaitAirportsQuery ==
  \E lat \in Centers, radiusKm \in RadiiKm, limit \in Limits :
    /\ Ready
    /\ \E o \in findAirportsNearby(GeoPoint(lat, 0), radiusKm, limit) :
         call' = [op |-> "findAirportsNearby",
                  args |-> [point |-> GeoPoint(lat, 0), radiusKm |-> radiusKm,
                            minRating |-> 0, limit |-> limit, code |-> <<>>],
                  settled |-> o]
    /\ pc' = "await:results"
    /\ UNCHANGED <<restaurants, airports, result, response>>

\* findNearestAirport: await findAirportsNearby(prisma, point, 500.0, 1)
AwaitFindAirportsNearby ==
  \E lat \in Centers :
    /\ Ready
    /\ \E o \in findAirportsNearby(GeoPoint(lat, 0), 500, 1) :
         call' = [op |-> "findNearestAirport",
                  args |-> [point |-> GeoPoint(lat, 0), radiusKm |-> 500,
                            minRating |-> 0, limit |-> 1, code |-> <<>>],
                  settled |-> o]
    /\ pc' = "await:nearest"
    /\ UNCHANGED <<restaurants, airports, result, response>>

\* findRestaurantsNearAirport: await prisma.$queryRaw`... WHERE UPPER(code) =
\* UPPER(${airportCode}) LIMIT 1`
AwaitAirportByCode ==
  \E code \in InputCodes, radiusKm \in RadiiKm, minRating \in MinRatings :
    /\ Ready
    /\ \E o \in {Thrown(DataAccessFailure)} \cup
                { Returned(airport) : airport \in AirportLookup(code) } :
         call' = [op |-> "findRestaurantsNearAirport",
                  args |-> [point |-> GeoPoint(0, 0), radiusKm |-> radiusKm,
                            minRating |-> minRating, limit |-> DefaultLimit,
                            code |-> code],
                  settled |-> o]
    /\ pc' = "await:airport"
    /\ UNCHANGED <<restaurants, airports, result, response>>

\* return results, of findRestaurantsNearby and findAirportsNearby, and the
\* return of findRestaurantsNearAirport with what its call of
\* findRestaurantsNearby settled with: no try, no catch.
ResumeReturnResults ==
  /\ pc = "await:results"
  /\ result' = [op |-> call.op, args |-> call.args, out |-> call.settled]
  /\ pc' = "idle"
  /\ call' = NoAwait
  /\ UNCHANGED <<restaurants, airports, response>>

\* findNearestAirport: return results[0] || null
ResumeFirstOrNull ==
  /\ pc = "await:nearest"
  /\ result' = [op |-> call.op, args |-> call.args, out |-> FirstOrNull(call.settled)]
  /\ pc' = "idle"
  /\ call' = NoAwait
  /\ UNCHANGED <<restaurants, airports, response>>

\* findRestaurantsNearAirport after its airport query: the rejection leaves
\* the function, no row throws "Airport not found", a row leads to
\* return findRestaurantsNearby(prisma, airportLocation, radiusKm, minRating).
ResumeAirportByCode ==
  /\ pc = "await:airport"
  /\ IF call.settled.kind = "error"
       THEN /\ result' = [op |-> call.op, args |-> call.args, out |-> call.settled]
            /\ pc' = "idle"
            /\ call' = NoAwait
     ELSE IF call.settled.rows = <<>>
       THEN /\ result' = [op |-> call.op, args |-> call.args,
                          out |-> Thrown(AirportNotFound)]
            /\ pc' = "idle"
            /\ call' = NoAwait
     ELSE LET airportLocation == GeoPoint(call.settled.rows[1].latitude,
                                          call.settled.rows[1].longitude)
          IN /\ \E o \in findRestaurantsNearby(airportLocation, call.args.radiusKm,
                                               call.args.minRating, DefaultLimit) :
                  call' = [call EXCEPT !.args.point = airportLocation,
                                       !.settled = o]
             /\ pc' = "await:results"
             /\ UNCHANGED result
  /\ UNCHANGED <<restaurants, airports, response>>

NextAwait ==
  \/ CreateRestaurantWithLocation
  \/ CreateAirportWithLocation
  \/ AwaitRestaurantsQuery
  \/ AwaitAirportsQuery
  \/ AwaitFindAirportsNearby
  \/ AwaitAirportByCode
  \/ ResumeReturnResults
  \/ ResumeFirstOrNull
  \/ ResumeAirportByCode
  \/ Discard

SpecAwait == InitAwait /\ [][NextAwait]_vars

\* C17: when the query a core function awaits is rejected by the store, the
\* function ends in the step that resumes it, with that same error: not with
\* an empty list, not with null, not with "Airport not found".
C17_FailurePropagates ==
  [][(pc # "idle" /\ pc' # pc /\ call.settled = Thrown(DataAccessFailure)) =>
       /\ pc' = "idle"
       /\ result'.op = call.op
       /\ result'.out = Thrown(DataAccessFailure)]_vars

\* findNearestAirport has ended with the store's error although an airport is
\* stored.
C17_Witness ==
  /\ result.op = "findNearestAirport"
  /\ result.out = Thrown(DataAccessFailure)
  /\ airports # <<>>
  /\ pc = "idle"
  /\ call = NoAwait

\* ------------------------------ the loaders of the two nearby APIs and the map
\* Query-string values of the requests; "" is an absent parameter. Latitudes
\* and longitudes of a request are degrees.
LatParams == {"", "0", "91", "x"}
LngParams == {"", "0", "181"}
RouteDistanceParams == {"", "1", "0", "1001", "x"}
RouteMinRatingParams == {"", "x"}
LimitParams == {"", "1", "0", "-1", "x"}

\* The point of the model's grid for a latitude and longitude in degrees.
GridPoint(lat, lng) == GeoPoint(JsMul(lat, StepsPerDegree), lng)

\* One call of a core function by a loader, with the arguments as passed.
Invocation(fn, lat, lng, radiusKm, minRating, limit) ==
  [fn |-> fn, point |-> GeoPoint(lat, lng), radiusKm |-> radiusKm,
   minRating |-> minRating, limit |-> limit]

\* What a loader answered, the request it answered and the calls of the core
\* it made on the way.
RouteResponse(route, request, status, error, invocations, body) ==
  [route |-> route, request |-> request, status |-> status, error |-> error,
   invocations |-> invocations, body |-> body]

NoBody == [rows |-> <<>>, count |-> 0]

\* createRestaurantWithLocation for a restaurant of rating 5, each one grid
\* step north of the one before.
SeedRestaurant ==
  /\ Len(restaurants) < MaxRestaurants
  /\ restaurants' =
       Append(restaurants,
              [rating |-> 5, location |-> GeoPoint(Len(restaurants), 0)])
  /\ result' = NoResult
  /\ response' = NoResponse
  /\ UNCHANGED <<airports, pc, call>>

\* createAirportWithLocation for an airport at latitude 0.
SeedAirport ==
  \E code \in StoredCodes :
    /\ Len(airports) < MaxAirports
    /\ \A i \in DOMAIN airports : airports[i].code # code
    /\ airports' =
         Append(airports, [code |-> code, location |-> GeoPoint(0, 0)])
    /\ result' = NoResult
    /\ response' = NoResponse
    /\ UNCHANGED <<restaurants, pc, call>>

\* GET /api/restaurants/nearby
RestaurantsNearbyLoader ==
  \E latText \in LatParams, lngText \in LngParams,
     distanceText \in RouteDistanceParams,
     minRatingText \in RouteMinRatingParams, limitText \in LimitParams :
    LET route == "api.restaurants.nearby"
        request == [lat |-> latText, lng |-> lngText, distance |-> distanceText,
                    minRating |-> minRatingText, limit |-> limitText]
        lat == ParseFloat(OrDefault(latText, ""))
        lng == ParseFloat(OrDefault(lngText, ""))
        distance == ParseFloat(OrDefault(distanceText, "5.0"))
        minRating == ParseFloat(OrDefault(minRatingText, "4.0"))
        limit == ParseInt(OrDefault(limitText, "20"))
    IN /\ Ready
       /\ IF IsNaN(lat) \/ IsNaN(lng)
            THEN response' = RouteResponse(route, request, 400, "Invalid parameters",
                                           <<>>, NoBody)
          ELSE IF JsLt(lat, -90) \/ JsGt(lat, 90)
            THEN response' = RouteResponse(route, request, 400, "Invalid latitude",
                                           <<>>, NoBody)
          ELSE IF JsLt(lng, -180) \/ JsGt(lng, 180)
            THEN response' = RouteResponse(route, request, 400, "Invalid longitude",
                                           <<>>, NoBody)
          ELSE IF JsLeq(distance, 0) \/ JsGt(distance, 500)
            THEN response' = RouteResponse(route, request, 400, "Invalid distance",
                                           <<>>, NoBody)
          ELSE \E out \in findRestaurantsNearby(GridPoint(lat, lng), distance,
                                                minRating, limit) :
                 response' =
                   RouteResponse(route, request,
                                 IF out.kind = "ok" THEN 200 ELSE 500,
                                 IF out.kind = "ok" THEN "none" ELSE "Database error",
                                 << Invocation("findRestaurantsNearby", lat, lng,
                                               distance, minRating, limit) >>,
                                 [rows |-> out.rows, count |-> Len(out.rows)])
       /\ UNCHANGED <<restaurants, airports, pc, call, result>>

\* GET /api/airports/nearby
AirportsNearbyLoader ==
  \E latText \in LatParams, lngText \in LngParams,
     distanceText \in RouteDistanceParams, limitText \in LimitParams :
    LET route == "api.airports.nearby"
        request == [lat |-> latText, lng |-> lngText, distance |-> distanceText,
                    minRating |-> "", limit |-> limitText]
        lat == ParseFloat(OrDefault(latText, ""))
        lng == ParseFloat(OrDefault(lngText, ""))
        distance == ParseFloat(OrDefault(distanceText, "50.0"))
        limit == ParseInt(OrDefault(limitText, "20"))
    IN /\ Ready
       /\ IF IsNaN(lat) \/ IsNaN(lng)
            THEN response' = RouteResponse(route, request, 400, "Invalid parameters",
                                           <<>>, NoBody)
          ELSE IF JsLt(lat, -90) \/ JsGt(lat, 90)
            THEN response' = RouteResponse(route, request, 400, "Invalid latitude",
                                           <<>>, NoBody)
          ELSE IF JsLt(lng, -180) \/ JsGt(lng, 180)
            THEN response' = RouteResponse(route, request, 400, "Invalid longitude",
                                           <<>>, NoBody)
          ELSE IF JsLeq(distance, 0) \/ JsGt(distance, 1000)
            THEN response' = RouteResponse(route, request, 400, "Invalid distance",
                                           <<>>, NoBody)
          ELSE \E out \in findAirportsNearby(GridPoint(lat, lng), distance, limit) :
                 response' =
                   RouteResponse(route, request,
                                 IF out.kind = "ok" THEN 200 ELSE 500,
                                 IF out.kind = "ok" THEN "none" ELSE "Database error",
                                 << Invocation("findAirportsNearby", lat, lng,
                                               distance, 0, limit) >>,
                                 [rows |-> out.rows, count |-> Len(out.rows)])
       /\ UNCHANGED <<restaurants, airports, pc, call, result>>

\* A restaurant and an airport as a POI of the map.
RestaurantPOI(r) == [id |-> r.id, type |-> "restaurant"]
AirportPOI(a) == [id |-> a.id, type |-> "airport"]

\* The loader of the map route: both queries at once (Promise.all), the POIs of
\* both when both are fulfilled, the empty map when either is rejected.
MapLoader ==
  \E latText \in LatParams, lngText \in LngParams,
     radiusText \in RouteDistanceParams :
    LET request == [lat |-> latText, lng |-> lngText, distance |-> radiusText,
                    minRating |-> "", limit |-> ""]
        lat == ParseFloat(OrDefault(latText, "39.8283"))
        lng == ParseFloat(OrDefault(lngText, "-98.5795"))
        radius == ParseFloat(OrDefault(radiusText, "50"))
        invocations ==
          << Invocation("findRestaurantsNearby", lat, lng, radius, 4, 50),
             Invocation("findAirportsNearby", lat, lng, JsMul(radius, 2), 0, 20) >>
    IN /\ Ready
       /\ \E rs \in findRestaurantsNearby(GridPoint(lat, lng), radius, 4, 50),
             as \in findAirportsNearby(GridPoint(lat, lng), JsMul(radius, 2), 20) :
            response' =
              IF rs.kind = "ok" /\ as.kind = "ok"
                THEN RouteResponse("map", request, 200, "none", invocations,
                       [pois |-> [i \in DOMAIN rs.rows |-> RestaurantPOI(rs.rows[i])] \o
                                 [i \in DOMAIN as.rows |-> AirportPOI(as.rows[i])],
                        center |-> [lat |-> lat, lng |-> lng],
                        restaurants |-> Len(rs.rows),
                        airports |-> Len(as.rows)])
                ELSE RouteResponse("map", request, 200, "none", invocations,
                       [pois |-> <<>>,
                        center |-> [lat |-> lat, lng |-> lng],
                        restaurants |-> 0,
                        airports |-> 0])
       /\ UNCHANGED <<restaurants, airports, pc, call, result>>

NextRoutes ==
  \/ SeedRestaurant
  \/ SeedAirport
  \/ RestaurantsNearbyLoader
  \/ AirportsNearbyLoader
  \/ MapLoader
  \/ Discard

SpecRoutes == Init /\ [][NextRoutes]_vars

\* A loader of the nearby APIs or of the map has answered.
RouteAnswered ==
  /\ response.status # 0
  /\ response.route \in {"api.restaurants.nearby", "api.airports.nearby", "map"}

\* C18: whatever the query string, every call of findRestaurantsNearby or
\* findAirportsNearby made by the restaurants-nearby API, the airports-nearby
\* API or the map loader passes a center of latitude in [-90, 90] and
\* longitude in [-180, 180].
C18_CallersPassValidCenter ==
  RouteAnswered =>
    \A i \in DOMAIN response.invocations :
      LET point == response.invocations[i].point
      IN /\ JsGeq(point.latitude, -90) /\ JsLeq(point.latitude, 90)
         /\ JsGeq(point.longitude, -180) /\ JsLeq(point.longitude, 180)

\* The distance parameter is absent or a number in (0, bound]; the limit and
\* minRating parameters are absent or parse, the limit to a positive integer.
ParametersParse(request, bound) ==
  /\ request.distance = "" \/
       (JsGt(ParseFloat(request.distance), 0) /\ JsLeq(ParseFloat(request.distance), bound))
  /\ request.limit = "" \/ JsGt(ParseInt(request.limit), 0)
  /\ request.minRating = "" \/ ~IsNaN(ParseFloat(request.minRating))

\* C19: the nearby APIs answer 400, without a call of the core, every request
\* whose distance is no number in (0, bound] (500 for restaurants, 1000 for
\* airports) or whose limit or minRating does not parse; so the core is only
\* called with a radius that is a number above 0 and a limit that is an
\* integer above 0.
C19_BadParametersRejected ==
  (RouteAnswered /\ response.route # "map") =>
    /\ ~ParametersParse(response.request,
                        IF response.route = "api.restaurants.nearby" THEN 500 ELSE 1000)
         => (response.status = 400 /\ response.invocations = <<>>)
    /\ \A i \in DOMAIN response.invocations :
         /\ JsGt(response.invocations[i].radiusKm, 0)
         /\ JsGt(response.invocations[i].limit, 0)

\* ------------------------- GET /api/airports/:code over a well-filled table
\* Largest number of rows of the "restaurants" table here: one more than the
\* default limit of findRestaurantsNearby.
MaxStored == 21

\* Query-string values and codes of the requests.
WideDistanceParams == {"", "25"}
WideCodes == { <<"a", "b">>, <<"a">> }

\* createRestaurantWithLocation for a restaurant of rating 5, each one grid
\* step north of the one before, until the table holds MaxStored rows.
SeedManyRestaurants ==
  /\ Len(restaurants) < MaxStored
  /\ restaurants' =
       Append(restaurants,
              [rating |-> 5, location |-> GeoPoint(Len(restaurants), 0)])
  /\ result' = NoResult
  /\ response' = NoResponse
  /\ UNCHANGED <<airports, pc, call>>

\* The loader up to its own airport query, as LoaderAirport, for a radius
\* that reaches the whole table.
LoaderAirportWide ==
  \E code \in WideCodes, distanceText \in WideDistanceParams :
    LET distance == ParseFloat(OrDefault(distanceText, "5.0"))
        minRating == ParseFloat(OrDefault("", "4.0"))
        c == [NoCall EXCEPT !.code = code, !.radiusKm = distance,
                            !.minRating = minRating]
    IN /\ Ready
       /\ IF Trim(code) = <<>>
            THEN /\ response' = Answer(400, "Invalid airport code", c, <<>>)
                 /\ UNCHANGED <<pc, call>>
          ELSE IF JsLeq(distance, 0) \/ JsGt(distance, 100)
            THEN /\ response' = Answer(400, "Invalid distance", c, <<>>)
                 /\ UNCHANGED <<pc, call>>
          ELSE \/ /\ response' = DatabaseError(c)
                  /\ UNCHANGED <<pc, call>>
               \/ \E airportResult \in AirportLookup(code) :
                    IF airportResult = <<>>
                      THEN /\ response' = Answer(404, "Airport not found", c, <<>>)
                           /\ UNCHANGED <<pc, call>>
                      ELSE /\ call' = [c EXCEPT !.airport = airportResult[1]]
                           /\ pc' = "loader"
                           /\ response' = NoResponse
       /\ UNCHANGED <<restaurants, airports, result>>

NextAirportDetails ==
  \/ SeedManyRestaurants
  \/ SeedAirport
  \/ LoaderAirportWide
  \/ LoaderFindRestaurantsNearAirportLookup
  \/ LoaderFindRestaurantsNearby
  \/ Discard

SpecAirportDetails == Init /\ [][NextAirportDetails]_vars

\* The stored restaurants of rating >= minRating within radiusKm of the
\* airport of the response.
QualifyingNearAirport ==
  { i \in DOMAIN restaurants :
      /\ RatingAtLeast(restaurants[i].rating, response.minRating)
      /\ ST_DistanceSphere(restaurants[i].location,
                           GeoPoint(response.airport.latitude,
                                    response.airport.longitude))
           <= response.radiusKm * 1000 }

\* C20: a 200 answer of GET /api/airports/:code lists every stored restaurant
\* of rating >= minRating within the radius of the airport, and count is the
\* number of those restaurants, however many there are.
C20_AllQualifyingReturned ==
  response.status = 200 =>
    /\ response.count = Cardinality(QualifyingNearAirport)
    /\ \A i \in QualifyingNearAirport :
         \E k \in DOMAIN response.restaurants : response.restaurants[k].id = i

\* ------------------------------------------------- the Prisma clients in use
\* Here call holds what the process has of db.server: how many PrismaClient
\* instances were created so far (they are numbered in the order of their
\* creation) and which one the module exports as prisma. response holds the
\* latest request: its route, its parameters, the status answered and the
\* client its queries went through (0: none, the request was refused before).
\* What the store answers to the queries is left open.

\* Largest number of clients created.
MaxClients == 4

\* db.server was imported when the server started:
\* export const prisma = new PrismaClient({...}).$extends(withAccelerate())
InitPrisma ==
  /\ restaurants = <<>>
  /\ airports = <<>>
  /\ pc = "idle"
  /\ call = [created |-> 1, prisma |-> 1]
  /\ result = NoResult
  /\ response = [route |-> "none", code |-> <<>>, lat |-> "", distance |-> "",
                 status |-> 0, client |-> 0]

\* The map loader: const db = prisma, no validation.
MapRequest ==
  \E latText \in LatParams, radiusText \in RouteDistanceParams :
    /\ response' = [route |-> "map", code |-> <<>>, lat |-> latText,
                    distance |-> radiusText, status |-> 200, client |-> call.prisma]
    /\ UNCHANGED <<restaurants, airports, pc, call, result>>

\* GET /api/restaurants/nearby: const db = prisma, after the validation.
RestaurantsNearbyRequest ==
  \E latText \in LatParams, distanceText \in RouteDistanceParams,
     status \in {200, 500} :
    LET lat == ParseFloat(OrDefault(latText, ""))
        distance == ParseFloat(OrDefault(distanceText, "5.0"))
        refused == \/ IsNaN(lat) \/ JsLt(lat, -90) \/ JsGt(lat, 90)
                   \/ JsLeq(distance, 0) \/ JsGt(distance, 500)
    IN /\ response' = [route |-> "api.restaurants.nearby", code |-> <<>>,
                       lat |-> latText, distance |-> distanceText,
                       status |-> IF refused THEN 400 ELSE status,
                       client |-> IF refused THEN 0 ELSE call.prisma]
       /\ UNCHANGED <<restaurants, airports, pc, call, result>>

\* GET /api/airports/nearby: const db = prisma, after the validation.
AirportsNearbyRequest ==
  \E latText \in LatParams, distanceText \in RouteDistanceParams,
     status \in {200, 500} :
    LET lat == ParseFloat(OrDefault(latText, ""))
        distance == ParseFloat(OrDefault(distanceText, "50.0"))
        refused == \/ IsNaN(lat) \/ JsLt(lat, -90) \/ JsGt(lat, 90)
                   \/ JsLeq(distance, 0) \/ JsGt(distance, 1000)
    IN /\ response' = [route |-> "api.airports.nearby", code |-> <<>>,
                       lat |-> latText, distance |-> distanceText,
                       status |-> IF refused THEN 400 ELSE status,
                       client |-> IF refused THEN 0 ELSE call.prisma]
       /\ UNCHANGED <<restaurants, airports, pc, call, result>>

\* GET /api/airports/:code as app/routes/api.airports.$code.ts has it:
\* const db = prisma, after the validation.
AirportDetailsRequest ==
  \E code \in InputCodes, distanceText \in DistanceParams,
     status \in {200, 404, 500} :
    LET distance == ParseFloat(OrDefault(distanceText, "5.0"))
        refused == \/ Trim(code) = <<>>
                   \/ JsLeq(distance, 0) \/ JsGt(distance, 100)
    IN /\ response' = [route |-> "api.airports.$code", code |-> code, lat |-> "",
                       distance |-> distanceText,
                       status |-> IF refused THEN 400 ELSE status,
                       client |-> IF refused THEN 0 ELSE call.prisma]
       /\ UNCHANGED <<restaurants, airports, pc, call, result>>

\* GET /api/airports/:code as the other loader of the route has it:
\* const prisma = createPrismaClient(context.cloudflare.env.DATABASE_URL),
\* after the validation; createPrismaClient does new PrismaClient({...}).
AirportDetailsRequestCreatingClient ==
  \E code \in InputCodes, distanceText \in DistanceParams,
     status \in {200, 404, 500} :
    LET distance == ParseFloat(OrDefault(distanceText, "5.0"))
        refused == \/ Trim(code) = <<>>
                   \/ JsLeq(distance, 0) \/ JsGt(distance, 100)
    IN /\ call.created < MaxClients
       /\ response' = [route |-> "api.airports.$code", code |-> code, lat |-> "",
                       distance |-> distanceText,
                       status |-> IF refused THEN 400 ELSE status,
                       client |-> IF refused THEN 0 ELSE call.created + 1]
       /\ call' = IF refused THEN call
                  ELSE [call EXCEPT !.created = call.created + 1]
       /\ UNCHANGED <<restaurants, airports, pc, result>>

NextPrisma ==
  \/ MapRequest
  \/ RestaurantsNearbyRequest
  \/ AirportsNearbyRequest
  \/ AirportDetailsRequest
  \/ AirportDetailsRequestCreatingClient

SpecPrisma == InitPrisma /\ [][NextPrisma]_vars

\* C21: after any sequence of requests to the four routes exactly one Prisma
\* client has been created in the process, and every request that reached
\* the store went through it.
C21_OnePrismaClient ==
  /\ call.created = 1
  /\ response.client # 0 => response.client = call.prisma

\* ----------------------------------------- the store's spatial capabilities
\* Here call holds what the store offers: spatial is "index" for PostGIS with
\* the GiST indexes of the migration, "scan" for PostGIS without them and
\* "none" for a store without the PostGIS functions; reachable tells whether
\* the store answers at all. Both queries name ST_DistanceSphere and
\* ST_MakePoint in their SQL and have no other way to the rows.
SpatialSupport == {"index", "scan", "none"}

InitSpatial ==
  /\ restaurants = <<>>
  /\ airports = <<>>
  /\ pc = "idle"
  /\ call \in [spatial : SpatialSupport, reachable : BOOLEAN]
  /\ result = NoResult
  /\ response = NoResponse

\* What $queryRaw gives on this store: a store without ST_DistanceSphere
\* rejects the statement, as an unreachable one does; the index changes no
\* answer of the store.
OnStore(outcomes, limit) ==
  IF ~call.reachable \/ call.spatial = "none" \/ limit < 0
  THEN {Thrown(DataAccessFailure)}
  ELSE { o \in outcomes : o.kind = "ok" }

\* A call of findRestaurantsNearby on this store.
FindRestaurantsNearbyOnStore ==
  \E lat \in Centers, radiusKm \in RadiiKm, minRating \in MinRatings,
     limit \in Limits :
    /\ Ready
    /\ \E out \in OnStore(findRestaurantsNearby(GeoPoint(lat, 0), radiusKm,
                                                minRating, limit), limit) :
         result' = [op |-> "findRestaurantsNearby",
                    args |-> [point |-> GeoPoint(lat, 0), radiusKm |-> radiusKm,
                              minRating |-> minRating, limit |-> limit,
                              code |-> <<>>],
                    out |-> out]
    /\ response' = NoResponse
    /\ UNCHANGED <<restaurants, airports, pc, call>>

\* A call of findAirportsNearby on this store.
FindAirportsNearbyOnStore ==
  \E lat \in Centers, radiusKm \in RadiiKm, limit \in Limits :
    /\ Ready
    /\ \E out \in OnStore(findAirportsNearby(GeoPoint(lat, 0), radiusKm, limit),
                          limit) :
         result' = [op |-> "findAirportsNearby",
                    args |-> [point |-> GeoPoint(lat, 0), radiusKm |-> radiusKm,
                              minRating |-> 0, limit |-> limit, code |-> <<>>],
                    out |-> out]
    /\ response' = NoResponse
    /\ UNCHANGED <<restaurants, airports, pc, call>>

NextSpatial ==
  \/ SeedRestaurant
  \/ SeedAirport
  \/ FindRestaurantsNearbyOnStore
  \/ FindAirportsNearbyOnStore
  \/ Discard

SpecSpatial == InitSpatial /\ [][NextSpatial]_vars

\* The lists the call gives on a reachable store with index and PostGIS.
IndexedLists ==
  LET a == result.args
  IN { o \in IF result.op = "findRestaurantsNearby"
             THEN findRestaurantsNearby(a.point, a.radiusKm, a.minRating, a.limit)
             ELSE findAirportsNearby(a.point, a.radiusKm, a.limit) :
         o.kind = "ok" }

\* C22: on a reachable store without spatial index or without native spatial
\* distance, a call of findRestaurantsNearby or findAirportsNearby with a
\* valid limit succeeds with a list the index-accelerated path returns.
C22_SameWithoutSpatialSupport ==
  /\ result.op \in {"findRestaurantsNearby", "findAirportsNearby"}
  /\ call.reachable
  /\ call.spatial # "index"
  /\ result.args.limit >= 0
  => result.out \in IndexedLists

\* ------------------------------------------ the loader among other writers
\* The airports table is shared with every other client of the store, and
\* the loader's two airport lookups are separate statements outside any
\* transaction: rows may be inserted, moved or deleted between them. Here
\* result holds how findRestaurantsNearAirport ended inside the loader when
\* it threw.

\* DELETE FROM "airports" WHERE id = ... by another client of the store.
DeleteAirport ==
  \E i \in DOMAIN airports :
    /\ airports' = [k \in 1..(Len(airports) - 1) |->
                      IF k < i THEN airports[k] ELSE airports[k + 1]]
    /\ UNCHANGED <<restaurants, pc, call, result, response>>

\* UPDATE "airports" SET location = ... WHERE id = ... by another client.
MoveAirport ==
  \E i \in DOMAIN airports, lat \in AirportLatitudes :
    /\ airports[i].location # GeoPoint(lat, 0)
    /\ airports' = [airports EXCEPT ![i].location = GeoPoint(lat, 0)]
    /\ UNCHANGED <<restaurants, pc, call, result, response>>

\* createAirportWithLocation by another request.
InsertAirport ==
  \E code \in StoredCodes, lat \in AirportLatitudes :
    /\ Len(airports) < MaxAirports
    /\ \A i \in DOMAIN airports : airports[i].code # code
    /\ airports' =
         Append(airports, [code |-> code, location |-> GeoPoint(lat, 0)])
    /\ UNCHANGED <<restaurants, pc, call, result, response>>

\* The loader inside findRestaurantsNearAirport, first query; what the
\* function throws is caught by the loader's catch block.
LoaderLookupAmongWriters ==
  /\ pc = "loader"
  /\ \/ /\ response' = DatabaseError(call)
        /\ result' = [op |-> "findRestaurantsNearAirport", args |-> NoArgs,
                      out |-> Thrown(DataAccessFailure)]
        /\ pc' = "idle"
        /\ call' = NoCall
     \/ \E airport \in AirportLookup(call.code) :
          IF airport = <<>>
            THEN /\ response' = DatabaseError(call)
                 /\ result' = [op |-> "findRestaurantsNearAirport",
                               args |-> NoArgs, out |-> Thrown(AirportNotFound)]
                 /\ pc' = "idle"
                 /\ call' = NoCall
            ELSE /\ call' = [call EXCEPT !.airportLocation =
                               GeoPoint(airport[1].latitude, airport[1].longitude)]
                 /\ pc' = "loader:findRestaurantsNearAirport"
                 /\ response' = NoResponse
                 /\ result' = result
  /\ UNCHANGED <<restaurants, airports>>

NextWriters ==
  \/ CreateRestaurantWithLocation
  \/ InsertAirport
  \/ MoveAirport
  \/ DeleteAirport
  \/ LoaderAirport
  \/ LoaderLookupAmongWriters
  \/ LoaderFindRestaurantsNearby
  \/ Discard

SpecWriters == Init /\ [][NextWriters]_vars

\* C23: a request of GET /api/airports/:code whose code matches no airport
\* when findRestaurantsNearAirport looks it up is answered 404, not 500.
C23_NotFoundIs404 ==
  /\ result.op = "findRestaurantsNearAirport"
  /\ result.out = Thrown(AirportNotFound)
  /\ response # NoResponse
  => response.status = 404

\* C25: in every 200 answer of GET /api/airports/:code every returned
\* restaurant lies within the requested radius of the airport position the
\* answer gives.
C25_WithinRadiusOfEchoedAirport ==
  /\ response # NoResponse
  /\ response.status = 200
  /\ ~IsNaN(response.radiusKm)
  => \A k \in DOMAIN response.restaurants :
       ST_DistanceSphere(
         restaurants[response.restaurants[k].id].location,
         GeoPoint(response.airport.latitude, response.airport.longitude))
       <= response.radiusKm * 1000

\* ----------------------------------------- the map loader and Promise.all
\* The loader of the map route split at its await. Here call holds the
\* loader's locals: the parsed center and radius and, for each of the two
\* queries handed to Promise.all, what it settled with ("pending" before).
Pending == [kind |-> "pending", rows |-> <<>>, error |-> "none"]

\* The loader up to the await: both queries are started.
MapLoaderStart ==
  \E latText \in LatParams, lngText \in LngParams,
     radiusText \in RouteDistanceParams :
    /\ Ready
    /\ pc' = "map"
    /\ call' = [request |-> [lat |-> latText, lng |-> lngText,
                             distance |-> radiusText, minRating |-> "",
                             limit |-> ""],
                lat |-> ParseFloat(OrDefault(latText, "39.8283")),
                lng |-> ParseFloat(OrDefault(lngText, "-98.5795")),
                radius |-> ParseFloat(OrDefault(radiusText, "50")),
                restaurants |-> Pending,
                airports |-> Pending]
    /\ UNCHANGED <<restaurants, airports, result, response>>

\* findRestaurantsNearby(db, {latitude: lat, longitude: lng}, radius, 4.0, 50)
\* settles.
MapRestaurantsSettle ==
  /\ pc = "map"
  /\ call.restaurants = Pending
  /\ \E rs \in findRestaurantsNearby(GridPoint(call.lat, call.lng), call.radius,
                                     4, 50) :
       call' = [call EXCEPT !.restaurants = rs]
  /\ UNCHANGED <<restaurants, airports, pc, result, response>>

\* findAirportsNearby(db, {latitude: lat, longitude: lng}, radius * 2, 20)
\* settles.
MapAirportsSettle ==
  /\ pc = "map"
  /\ call.airports = Pending
  /\ \E as \in findAirportsNearby(GridPoint(call.lat, call.lng),
                                  JsMul(call.radius, 2), 20) :
       call' = [call EXCEPT !.airports = as]
  /\ UNCHANGED <<restaurants, airports, pc, result, response>>

MapInvocations ==
  << Invocation("findRestaurantsNearby", call.lat, call.lng, call.radius, 4, 50),
     Invocation("findAirportsNearby", call.lat, call.lng,
                JsMul(call.radius, 2), 0, 20) >>

\* Promise.all is fulfilled: the POIs of both lists.
MapLoaderReturn ==
  /\ pc = "map"
  /\ call.restaurants.kind = "ok"
  /\ call.airports.kind = "ok"
  /\ response' =
       RouteResponse("map", call.request, 200, "none", MapInvocations,
         [pois |-> [i \in DOMAIN call.restaurants.rows |->
                      RestaurantPOI(call.restaurants.rows[i])] \o
                   [i \in DOMAIN call.airports.rows |->
                      AirportPOI(call.airports.rows[i])],
          center |-> [lat |-> call.lat, lng |-> call.lng],
          restaurants |-> Len(call.restaurants.rows),
          airports |-> Len(call.airports.rows)])
  /\ pc' = "idle"
  /\ UNCHANGED <<restaurants, airports, call, result>>

\* A catch block that keeps the list of the query that was fulfilled.
MapLoaderCatch_Partial ==
  /\ pc = "map"
  /\ call.restaurants.kind = "error" \/ call.airports.kind = "error"
  /\ response' =
       RouteResponse("map", call.request, 200, "none", MapInvocations,
         [pois |-> [i \in DOMAIN call.restaurants.rows |->
                      RestaurantPOI(call.restaurants.rows[i])] \o
                   [i \in DOMAIN call.airports.rows |->
                      AirportPOI(call.airports.rows[i])],
          center |-> [lat |-> call.lat, lng |-> call.lng],
          restaurants |-> Len(call.restaurants.rows),
          airports |-> Len(call.airports.rows)])
  /\ pc' = "idle"
  /\ UNCHANGED <<restaurants, airports, call, result>>

\* Promise.all is rejected as soon as one of the two queries is: the catch
\* block returns the empty map.
MapLoaderCatch ==
  /\ pc = "map"
  /\ call.restaurants.kind = "error" \/ call.airports.kind = "error"
  /\ response' =
       RouteResponse("map", call.request, 200, "none", MapInvocations,
         [pois |-> <<>>,
          center |-> [lat |-> call.lat, lng |-> call.lng],
          restaurants |-> 0,
          airports |-> 0])
  /\ pc' = "idle"
  /\ UNCHANGED <<restaurants, airports, call, result>>

NextMap ==
  \/ SeedRestaurant
  \/ SeedAirport
  \/ MapLoaderStart
  \/ MapRestaurantsSettle
  \/ MapAirportsSettle
  \/ MapLoaderReturn
  \/ MapLoaderCatch
  \/ Discard

SpecMap == Init /\ [][NextMap]_vars

\* The map loader has returned; call still holds what its queries gave.
MapReturned ==
  /\ pc = "idle"
  /\ response.status # 0
  /\ response.route = "map"

\* C24: when one of the two queries of the map loader failed, the loader
\* returns no POI, restaurants = 0 and airports = 0 with the requested
\* center; and in every return restaurants + airports is the number of POIs.
C24_AllOrNothing ==
  MapReturned =>
    LET body == response.body
    IN /\ call.restaurants.kind = "error" \/ call.airports.kind = "error"
          => /\ body.pois = <<>>
             /\ body.restaurants = 0
             /\ body.airports = 0
       /\ body.center =
            [lat |-> ParseFloat(OrDefault(response.request.lat, "39.8283")),
             lng |-> ParseFloat(OrDefault(response.request.lng, "-98.5795"))]
       /\ body.restaurants + body.airports = Len(body.pois)

\* The airports query failed after the restaurants query had found rows.
C24_Witness ==
  /\ MapReturned
  /\ call.restaurants.kind = "ok"
  /\ call.restaurants.rows # <<>>
  /\ call.airports.kind = "error"

\* C26: whatever airports are stored, every input code matches at most one of
\* them under UPPER(code) = UPPER(input).
C26_AtMostOneMatch ==
  \A code \in InputCodes : Cardinality(AirportsByCode(code)) <= 1

\* C27: a distance formatDistance renders in meters shows a number of at
\* most 999: no input gives "1000 m".
C27_MetersBelowThousand ==
  result.op = "formatDistance" => result.out # "1000 m"

\* ------------------------------------------------- the directions on the map
\* GoogleMapComponent with its DirectionsRenderer and DirectionsPanel. Here
\* call holds the state of the page: the environment (geolocation, whether
\* the routes library and the map are there), selectedPOI (0 is null), and
\* the state of the two mounted components; result holds the directions
\* requests whose callback has not run yet. A click and the effects it
\* triggers are one step. After an unmount the callbacks of the old
\* components change nothing any more: they are dropped.

\* Largest number of directions requests issued while a POI is selected.
MaxRequests == 4

POIs == {1, 2}
TravelModes == {"DRIVING", "WALKING"}
Geolocation == {"granted", "denied", "absent"}

\* <DirectionsRenderer destination={selectedPOI.position} />: no travelMode
\* is passed, the parameter default applies.
RendererTravelMode == "DRIVING"

\* The routes DirectionsService returns for a request.
RoutesFor(origin, destination, travelMode) ==
  << [origin |-> origin, destination |-> destination, travelMode |-> travelMode] >>

NoDirections == [origin |-> "null", destination |-> 0, travelMode |-> "none"]

\* The state of both components as they mount; the geolocation effects have
\* run: DirectionsRenderer falls back to the center of the USA without the
\* geolocation API, DirectionsPanel has no else branch.
Mounted(c, poi) ==
  [c EXCEPT !.selectedPOI = poi,
            !.travelMode = "DRIVING",
            !.routes = <<>>,
            !.loading = FALSE,
            !.panelLocation = "null",
            !.panelPositionPending = (c.geolocation # "absent"),
            !.rendererLocation = IF c.geolocation = "absent" THEN "fallback" ELSE "null",
            !.rendererPositionPending = (c.geolocation # "absent"),
            !.directionsService = (c.routesLibrary /\ c.map),
            !.rendererMode = "none",
            !.directions = NoDirections,
            !.issued = 0]

Unmounted(c) ==
  [c EXCEPT !.selectedPOI = 0,
            !.travelMode = "DRIVING",
            !.routes = <<>>,
            !.loading = FALSE,
            !.panelLocation = "null",
            !.panelPositionPending = FALSE,
            !.rendererLocation = "null",
            !.rendererPositionPending = FALSE,
            !.directionsService = FALSE,
            !.rendererMode = "none",
            !.directions = NoDirections,
            !.issued = 0]

\* The fetch effect of DirectionsPanel, run on state <<c, requests>>.
PanelFetch(s) ==
  LET c == s[1]
  IN IF ~c.routesLibrary \/ c.panelLocation = "null" THEN s
     ELSE << [c EXCEPT !.loading = TRUE, !.issued = c.issued + 1],
             s[2] \cup {[by |-> "panel", id |-> c.issued + 1,
                         origin |-> c.panelLocation,
                         destination |-> c.selectedPOI,
                         travelMode |-> c.travelMode]} >>

\* The route effect of DirectionsRenderer, run on state <<c, requests>>.
RendererRoute(s) ==
  LET c == s[1]
  IN IF ~c.directionsService \/ c.rendererLocation = "null" THEN s
     ELSE << [c EXCEPT !.rendererMode = RendererTravelMode,
                       !.issued = c.issued + 1],
             s[2] \cup {[by |-> "renderer", id |-> c.issued + 1,
                         origin |-> c.rendererLocation,
                         destination |-> c.selectedPOI,
                         travelMode |-> RendererTravelMode]} >>

InitDirections ==
  /\ restaurants = <<>>
  /\ airports = <<>>
  /\ pc = "idle"
  /\ \E g \in Geolocation :
       call = Unmounted([geolocation |-> g, routesLibrary |-> FALSE, map |-> FALSE,
                         selectedPOI |-> 0, travelMode |-> "DRIVING",
                         routes |-> <<>>, loading |-> FALSE,
                         panelLocation |-> "null", panelPositionPending |-> FALSE,
                         rendererLocation |-> "null",
                         rendererPositionPending |-> FALSE,
                         directionsService |-> FALSE, rendererMode |-> "none",
                         directions |-> NoDirections, issued |-> 0])
  /\ result = {}
  /\ response = NoResponse

\* onClick of a marker: setSelectedPOI(poi). The first selection mounts both
\* components, a later one changes their destination.
SelectPOI ==
  \E poi \in POIs :
    /\ poi # call.selectedPOI
    /\ call.issued + 2 <= MaxRequests
    /\ LET s == IF call.selectedPOI = 0
                  THEN RendererRoute(<<Mounted(call, poi), result>>)
                  ELSE RendererRoute(PanelFetch(
                         <<[call EXCEPT !.selectedPOI = poi], result>>))
       IN call' = s[1] /\ result' = s[2]
    /\ UNCHANGED <<restaurants, airports, pc, response>>

\* onClose of the panel: setSelectedPOI(null).
ClosePanel ==
  /\ call.selectedPOI # 0
  /\ call' = Unmounted(call)
  /\ result' = {}
  /\ UNCHANGED <<restaurants, airports, pc, response>>

\* handleTravelModeChange(mode): setTravelMode(mode), and onTravelModeChange,
\* which GoogleMapComponent does not pass.
HandleTravelModeChange ==
  \E mode \in TravelModes :
    /\ call.selectedPOI # 0
    /\ mode # call.travelMode
    /\ call.issued + 2 <= MaxRequests
    /\ LET s == PanelFetch(<<[call EXCEPT !.travelMode = mode], result>>)
       IN call' = s[1] /\ result' = s[2]
    /\ UNCHANGED <<restaurants, airports, pc, response>>

\* useMapsLibrary("routes") gives the library.
RoutesLibraryLoaded ==
  /\ ~call.routesLibrary
  /\ LET c == [call EXCEPT !.routesLibrary = TRUE,
                           !.directionsService = (call.selectedPOI # 0 /\ call.map)]
         s == IF call.selectedPOI = 0 THEN <<c, result>>
              ELSE IF c.directionsService
                THEN RendererRoute(PanelFetch(<<c, result>>))
              ELSE PanelFetch(<<c, result>>)
     IN call' = s[1] /\ result' = s[2]
  /\ UNCHANGED <<restaurants, airports, pc, response>>

\* useMap() gives the map.
MapReady ==
  /\ ~call.map
  /\ LET c == [call EXCEPT !.map = TRUE,
                           !.directionsService =
                              (call.selectedPOI # 0 /\ call.routesLibrary)]
         s == IF c.directionsService THEN RendererRoute(<<c, result>>)
              ELSE <<c, result>>
     IN call' = s[1] /\ result' = s[2]
  /\ UNCHANGED <<restaurants, airports, pc, response>>

\* getCurrentPosition of the panel calls back: with the position, or with an
\* error, answered by the fallback location.
PanelPosition ==
  /\ call.panelPositionPending
  /\ LET s == PanelFetch(
                <<[call EXCEPT !.panelPositionPending = FALSE,
                               !.panelLocation =
                                  IF call.geolocation = "granted" THEN "user"
                                  ELSE "fallback"], result>>)
     IN call' = s[1] /\ result' = s[2]
  /\ UNCHANGED <<restaurants, airports, pc, response>>

\* getCurrentPosition of the renderer calls back.
RendererPosition ==
  /\ call.rendererPositionPending
  /\ LET s == RendererRoute(
                <<[call EXCEPT !.rendererPositionPending = FALSE,
                               !.rendererLocation =
                                  IF call.geolocation = "granted" THEN "user"
                                  ELSE "fallback"], result>>)
     IN call' = s[1] /\ result' = s[2]
  /\ UNCHANGED <<restaurants, airports, pc, response>>

\* The callback of a request of the panel, whichever request it is.
PanelDirectionsResponse ==
  \E r \in result, ok \in BOOLEAN :
    /\ r.by = "panel"
    /\ call' = [call EXCEPT !.loading = FALSE,
                            !.routes = IF ok
                                         THEN RoutesFor(r.origin, r.destination,
                                                        r.travelMode)
                                       ELSE <<>>]
    /\ result' = result \ {r}
    /\ UNCHANGED <<restaurants, airports, pc, response>>

\* The callback of a request of the renderer: setDirections when it is OK.
RendererDirectionsResponse ==
  \E r \in result, ok \in BOOLEAN :
    /\ r.by = "renderer"
    /\ call' = IF ok
                 THEN [call EXCEPT !.directions =
                         [origin |-> r.origin, destination |-> r.destination,
                          travelMode |-> r.travelMode]]
               ELSE call
    /\ result' = result \ {r}
    /\ UNCHANGED <<restaurants, airports, pc, response>>

NextDirections ==
  \/ SelectPOI
  \/ ClosePanel
  \/ HandleTravelModeChange
  \/ RoutesLibraryLoaded
  \/ MapReady
  \/ PanelPosition
  \/ RendererPosition
  \/ PanelDirectionsResponse
  \/ RendererDirectionsResponse

SpecDirections == InitDirections /\ [][NextDirections]_vars

\* A request of the panel is outstanding.
PanelOutstanding == \E r \in result : r.by = "panel"

\* C28: while a POI is selected, loading is true exactly while a request of
\* the panel is outstanding, and when none is outstanding the routes shown
\* are what the service returned for the selected travel mode and
\* destination (or none, when that request failed or none was made).
C28_RoutesOfCurrentSelection ==
  call.selectedPOI # 0 =>
    /\ call.loading <=> PanelOutstanding
    /\ ~PanelOutstanding =>
         call.routes \in {<<>>, RoutesFor(call.panelLocation, call.selectedPOI,
                                         call.travelMode)}

\* C29: once a POI is selected, the routes library is there and nothing the
\* panel waits for is pending any more, the panel shows the routes list or
\* the "No routes found" message.
C29_PanelNotBlank ==
  /\ call.selectedPOI # 0
  /\ call.routesLibrary
  /\ ~call.panelPositionPending
  /\ ~PanelOutstanding
  => \/ ~call.loading /\ call.routes # <<>>
     \/ ~call.loading /\ call.routes = <<>> /\ call.panelLocation # "null"

\* C30: while a POI is selected, the last request DirectionsRenderer issued
\* has the travel mode selected in the panel.
C30_RendererUsesPanelMode ==
  call.selectedPOI # 0 /\ call.rendererMode # "none"
    => call.rendererMode = call.travelMode

====
